---- MODULE Spec2Model ----
(***************************************************************************)
(* Model of src/main.py: a directory watcher that schedules one            *)
(* upload_process task per created '.mp4' file on a single asyncio event   *)
(* loop.  There is one action per resumption of a task (the code between   *)
(* two awaits runs atomically on the loop), one for the watchdog callback  *)
(* and one for the interrupt.                                              *)
(*                                                                         *)
(* Paths are sequences of one-character strings so that endswith and       *)
(* basename are computed.  The directory is the set of the paths that      *)
(* exist; what os.path.getsize and read find in a file are inputs of the   *)
(* steps that call them, since the file may change in between.  aio_open   *)
(* and read are one step: on POSIX a read after an unlink returns what a   *)
(* read before it returns.  CancelledError is a BaseException (Python 3.8  *)
(* and later), which 'except Exception' does not catch.                    *)
(*                                                                         *)
(* The fields calls, posts, sessions, open, getResp, putResp, postResp,     *)
(* removed and fileAtEnd of a task record what the task did and was        *)
(* answered; the program has no such state.  Of the answers to the PUT and *)
(* the POST a task keeps the outcome (Logged): status 200, or an error.    *)
(***************************************************************************)
EXTENDS Integers, Sequences, FiniteSets, TLC

VARIABLES files, events, tasks, watcher, observer

vars == <<files, events, tasks, watcher, observer>>

-----------------------------------------------------------------------------
(* Bounds *)

MaxEvents == 2
MaxSize == 1

-----------------------------------------------------------------------------
(* Paths and the pure string functions *)

\* the watched directory ./videos/, shortened
Dir == <<"v", "/">>

\* the suffix on_created looks for
Suffix == <<".", "m", "p", "4">>

\* the paths of the creation events: two videos, a wrong case, another type
Paths ==
    { Dir \o <<"a", ".", "m", "p", "4">>,
      Dir \o <<"b", ".", "m", "p", "4">>,
      Dir \o <<"a", ".", "M", "P", "4">>,
      Dir \o <<"n", ".", "t", "x", "t">> }

\* str.endswith(suf)
EndsWith(s, suf) ==
    /\ Len(s) >= Len(suf)
    /\ SubSeq(s, Len(s) - Len(suf) + 1, Len(s)) = suf

\* The title as it would be if the path were passed on unchanged
basename_WholePath(s) == s

\* os.path.basename: what follows the last "/"
basename(s) ==
    LET slashes == { i \in 1..Len(s) : s[i] = "/" }
        last == IF slashes = {} THEN 0
                ELSE CHOOSE i \in slashes : \A j \in slashes : j <= i
    IN  SubSeq(s, last + 1, Len(s))

\* on_created as it would be with a case-insensitive test
Qualifies_AnyCase(p) ==
    \/ EndsWith(p, Suffix)
    \/ EndsWith(p, <<".", "M", "P", "4">>)

\* the test of VideoHandler.on_created
Qualifies(p) == EndsWith(p, Suffix)

\* Byte sizes a file can have
Sizes == 0..MaxSize

\* The sizes to draw for a step: one value where the step never looks at it
SizesFor(used) == IF used THEN Sizes ELSE {0}

-----------------------------------------------------------------------------
(* Responses of the remote service *)

GetResponses ==
    { [kind |-> "error", status |-> 0,   body |-> "none"],
      [kind |-> "http",  status |-> 500, body |-> "text"],
      [kind |-> "http",  status |-> 200, body |-> "dest"],
      [kind |-> "http",  status |-> 200, body |-> "nokeys"],
      [kind |-> "http",  status |-> 200, body |-> "empty"],
      [kind |-> "http",  status |-> 200, body |-> "undecodable"] }

NoResponse == [kind |-> "none", status |-> 0, body |-> "none"]

CallResponses ==
    { [kind |-> "error", status |-> 0,   body |-> "none"],
      [kind |-> "http",  status |-> 500, body |-> "text"],
      [kind |-> "http",  status |-> 200, body |-> "json"] }

ReadFailed == [kind |-> "readfail", status |-> 0, body |-> "none"]

\* What upload_video and create_post make of an answer: the branch of status
\* 200, or an error that is logged (any other status, or an exception of
\* the call); nothing else of the answer is kept
Logged(resp) ==
    IF resp.kind = "http" /\ resp.status = 200 THEN resp
    ELSE [kind |-> "failed", status |-> 0, body |-> "none"]

\* the value get_upload_url returns: None, or the decoded JSON body.
\* truthy is Python's truth value of it, haskeys whether it has 'url' and 'hash'.
NoneInfo == [truthy |-> FALSE, haskeys |-> FALSE, url |-> 0, hash |-> 0]

\* get_upload_url as it would be without the test of the status
get_upload_url_AnyStatus(resp, r) ==
    IF resp.kind = "error" \/ resp.body = "undecodable" THEN NoneInfo
    ELSE [truthy |-> TRUE, haskeys |-> TRUE, url |-> r, hash |-> r]

get_upload_url(resp, r) ==
    IF resp.kind = "error" THEN NoneInfo
    ELSE IF resp.status = 200
         THEN CASE resp.body = "dest"   -> [truthy |-> TRUE, haskeys |-> TRUE,
                                            url |-> r, hash |-> r]
                [] resp.body = "nokeys" -> [truthy |-> TRUE, haskeys |-> FALSE,
                                            url |-> 0, hash |-> 0]
                [] resp.body = "empty"  -> [truthy |-> FALSE, haskeys |-> FALSE,
                                            url |-> 0, hash |-> 0]
                [] OTHER                -> NoneInfo
         ELSE NoneInfo

\* create_post as it would be if it dropped its category_id argument
create_post_data_NoCategory(video_title, video_hash, category_id) ==
    [title |-> video_title, hash |-> video_hash,
     is_available_in_public_feed |-> TRUE, category_id |-> 0]

\* the JSON body create_post sends
create_post_data(video_title, video_hash, category_id) ==
    [title |-> video_title, hash |-> video_hash,
     is_available_in_public_feed |-> TRUE, category_id |-> category_id]

\* the category upload_process passes to create_post
CategoryId == 25

-----------------------------------------------------------------------------
(* Tasks *)

Ended == {"done", "aborted", "crashed", "cancelled"}

Runs == 1..Len(tasks)

Failed(t) ==
    \/ t.pc \in {"aborted", "crashed"}
    \/ t.putResp.kind \in {"failed", "readfail"}
    \/ t.postResp.kind = "failed"

\* The progress bar exists from its creation to the end of its with block
NoBar == [open |-> FALSE, total |-> 0, n |-> 0]

\* tqdm_asyncio(total=file_size)
tqdm_asyncio(file_size) == [open |-> TRUE, total |-> file_size, n |-> 0]

\* progress_bar.update(len(data))
update(bar, len) == [bar EXCEPT !.n = @ + len]

\* The session as it would be if one module-level session served every call
ClientSession_Module(r, site) == [run |-> 0, site |-> "module"]

\* aiohttp.ClientSession(): every call constructs a new object, named here by
\* the run and the function that constructed it
ClientSession(r, site) == [run |-> r, site |-> site]

NoSession == [run |-> 0, site |-> "none"]

\* session is the local of upload_process, sessions the session of each call
\* in calls, open the sessions constructed and not yet closed
NewTask(p) ==
    [path |-> p, pc |-> "new", getResp |-> NoResponse,
     url |-> 0, hash |-> 0, bar |-> NoBar,
     putUrl |-> 0, putLen |-> 0, putResp |-> NoResponse, postResp |-> NoResponse,
     posts |-> <<>>, calls |-> <<>>, removed |-> FALSE, fileAtEnd |-> FALSE,
     session |-> NoSession, sessions |-> <<>>, open |-> {}]

-----------------------------------------------------------------------------
(* Initial state: monitor_videos has started the observer, ./videos is empty *)

Init ==
    /\ files = {}
    /\ events = [p \in Paths |-> 0]
    /\ tasks = <<>>
    /\ watcher = "Idle"
    /\ observer = "running"

RECURSIVE SumEvents(_)
SumEvents(S) ==
    IF S = {} THEN 0
    ELSE LET p == CHOOSE q \in S : TRUE IN events[p] + SumEvents(S \ {p})

\* The loop as it would be if a task's uncaught exception stopped it
LoopRunning_StopsOnCrash ==
    /\ watcher = "Idle"
    /\ \A r \in Runs : tasks[r].pc # "crashed"

\* The loop as it would be if a remote call were made with a blocking client
LoopRunning_BlockingCalls ==
    /\ watcher = "Idle"
    /\ \A r \in Runs : tasks[r].pc \notin {"get", "put", "post"}

\* The event loop resumes tasks while asyncio.run has not torn it down
LoopRunning == watcher = "Idle"

-----------------------------------------------------------------------------
(* Directory watcher *)

\* A file is created in ./videos (newly, or again after the operator
\* removed it) and the observer thread calls VideoHandler.on_created: the
\* task is created from that thread and first runs when the loop next turns.
\* Once the watcher has stopped no callback runs any more
on_created(p) ==
    /\ watcher = "Idle"
    /\ SumEvents(Paths) < MaxEvents
    /\ files' = files \cup {p}
    /\ events' = [events EXCEPT ![p] = @ + 1]
    /\ tasks' = IF Qualifies(p) THEN Append(tasks, NewTask(p)) ELSE tasks
    /\ UNCHANGED <<watcher, observer>>

\* asyncio.run as it would be if it left the unfinished tasks alone
Cancel_None(t) == t

\* asyncio.run cancels what is left: CancelledError is raised at the await
\* where the task is suspended, or the task never starts
Cancel(t) ==
    IF t.pc \in Ended THEN t
    ELSE [t EXCEPT !.pc = "cancelled", !.bar = NoBar, !.putLen = 0,
                   !.fileAtEnd = t.path \in files, !.open = {}]

\* SIGINT.  caught: the KeyboardInterrupt surfaces inside the try of
\* monitor_videos, which stops and joins the observer.  Otherwise the main
\* task is cancelled (or the interrupt is raised in the loop's own code) and
\* 'except KeyboardInterrupt' is not reached.  In both cases asyncio.run
\* cancels every task that has not finished before it returns.
Interrupt(caught) ==
    /\ watcher = "Idle"
    /\ watcher' = "Stopped"
    /\ observer' = IF caught THEN "joined" ELSE "abandoned"
    /\ tasks' = [r \in Runs |-> Cancel(tasks[r])]
    /\ UNCHANGED <<files, events>>

-----------------------------------------------------------------------------
(* upload_process, one action per resumption *)

\* The task starts: the session is opened and the GET is sent
Start(r) ==
    /\ LoopRunning
    /\ tasks[r].pc = "new"
    /\ LET session == ClientSession(r, "upload_process")
       IN  tasks' = [tasks EXCEPT ![r] =
                        [@ EXCEPT !.pc = "get", !.calls = Append(@, "GET"),
                                  !.session = session,
                                  !.open = {session},
                                  !.sessions = Append(@, session)]]
    /\ UNCHANGED <<files, events, watcher, observer>>

\* The GET returns.  Without a destination the task returns; otherwise the
\* file is sized (file_size is what os.path.getsize finds), the progress bar
\* is created and upload_video opens the file
GetReturn(r, resp, file_size) ==
    /\ LoopRunning
    /\ tasks[r].pc = "get"
    /\ LET t == tasks[r]
           info == get_upload_url(resp, r)
       IN  tasks' = [tasks EXCEPT ![r] =
             IF ~info.truthy
             THEN [t EXCEPT !.pc = "aborted", !.getResp = resp,
                            !.fileAtEnd = t.path \in files, !.open = {}]
             ELSE IF ~info.haskeys
             THEN [t EXCEPT !.pc = "crashed", !.getResp = resp,
                            !.fileAtEnd = t.path \in files, !.open = {}]
             ELSE IF t.path \notin files
             THEN [t EXCEPT !.pc = "crashed", !.getResp = resp,
                            !.url = info.url, !.hash = info.hash, !.open = {}]
             ELSE [t EXCEPT !.pc = "read", !.getResp = resp,
                            !.url = info.url, !.hash = info.hash,
                            !.bar = tqdm_asyncio(file_size)]]
    /\ UNCHANGED <<files, events, watcher, observer>>

\* create_post as it would be if it sent the POST again after a first try
SendPost_Retry(t) ==
    [t EXCEPT !.pc = "post",
              !.bar = NoBar,
              !.calls = @ \o <<"POST", "POST">>,
              !.sessions = @ \o <<t.session, t.session>>,
              !.posts = Append(@, create_post_data(basename(t.path), t.hash,
                                                   CategoryId))]

\* upload_video has returned and the with block of the bar is left;
\* create_post sends the POST (lines 103-111)
SendPost(t) ==
    [t EXCEPT !.pc = "post",
              !.bar = NoBar,
              !.calls = Append(@, "POST"),
              !.sessions = Append(@, t.session),
              !.posts = Append(@, create_post_data(basename(t.path), t.hash,
                                                   CategoryId))]

\* The PUT as it would be if it went to a fixed address
session_put_FixedUrl(upload_url, data) == [url |-> 0, len |-> data]

\* The PUT as it would be if the body were the file object already read to
\* its end
session_put_Exhausted(upload_url, data) == [url |-> upload_url, len |-> 0]

\* session.put(upload_url, data = data): the request upload_video sends;
\* data is the number of bytes it carries
session_put(upload_url, data) == [url |-> upload_url, len |-> data]

\* The open and read of upload_video return.  ok: len bytes were read (the
\* file may have changed since it was sized), the bar is advanced and the
\* PUT is sent on a fresh session; otherwise the exception is logged and
\* upload_process goes on to create_post
ReadReturn(r, ok, len) ==
    /\ LoopRunning
    /\ tasks[r].pc = "read"
    /\ ok => tasks[r].path \in files
    /\ LET t == tasks[r]
           session == ClientSession(r, "upload_video")
       IN  tasks' = [tasks EXCEPT ![r] =
             IF ok
             THEN [t EXCEPT !.pc = "put",
                            !.putLen = session_put(t.url, len).len,
                            !.bar = update(t.bar, len),
                            !.putUrl = session_put(t.url, len).url,
                            !.calls = Append(@, "PUT"),
                            !.open = @ \cup {session},
                            !.sessions = Append(@, session)]
             ELSE SendPost([t EXCEPT !.putResp = ReadFailed])]
    /\ UNCHANGED <<files, events, watcher, observer>>

\* The PUT returns; whatever it returned, create_post is called
PutReturn(r, resp) ==
    /\ LoopRunning
    /\ tasks[r].pc = "put"
    /\ tasks' = [tasks EXCEPT ![r] =
                    SendPost([tasks[r] EXCEPT
                                 !.putResp = Logged(resp), !.putLen = 0,
                                 !.open = @ \ {ClientSession(r, "upload_video")}])]
    /\ UNCHANGED <<files, events, watcher, observer>>

\* Step 4 as it would be if it were reached only after a confirmed post
DeletesAfter_Confirmed(t, resp) ==
    /\ t.putResp.kind = "http" /\ t.putResp.status = 200
    /\ resp.kind = "http" /\ resp.status = 200

\* Step 4 of upload_process: os.remove follows create_post unconditionally
DeletesAfter(t, resp) == TRUE

\* os.remove as it would be if it cleared the watched directory
os_remove_Directory(fs, video_path) == {}

\* os.remove(video_path): the one file at that path leaves the directory
os_remove(fs, video_path) == fs \ {video_path}

\* The POST returns; the file is removed
PostReturn(r, resp) ==
    /\ LoopRunning
    /\ tasks[r].pc = "post"
    /\ LET t == tasks[r]
       IN  IF ~DeletesAfter(t, resp)
           THEN /\ tasks' = [tasks EXCEPT ![r] =
                       [t EXCEPT !.pc = "done", !.postResp = Logged(resp),
                                 !.fileAtEnd = t.path \in files, !.open = {}]]
                /\ files' = files
           ELSE IF t.path \notin files
           THEN /\ tasks' = [tasks EXCEPT ![r] =
                       [t EXCEPT !.pc = "crashed", !.postResp = Logged(resp),
                                 !.open = {}]]
                /\ files' = files
           ELSE /\ tasks' = [tasks EXCEPT ![r] =
                       [t EXCEPT !.pc = "done", !.postResp = Logged(resp),
                                 !.removed = TRUE, !.open = {}]]
                /\ files' = os_remove(files, t.path)
    /\ UNCHANGED <<events, watcher, observer>>

\* Any resumption of task r
RunStep(r) ==
    \/ Start(r)
    \/ \E resp \in GetResponses : \E sz \in SizesFor(resp.body = "dest") :
            GetReturn(r, resp, sz)
    \/ \E ok \in BOOLEAN : \E len \in SizesFor(ok) : ReadReturn(r, ok, len)
    \/ \E resp \in CallResponses : PutReturn(r, resp)
    \/ \E resp \in CallResponses : PostReturn(r, resp)

-----------------------------------------------------------------------------

Next ==
    \/ \E p \in Paths : on_created(p)
    \/ \E caught \in BOOLEAN : Interrupt(caught)
    \/ \E r \in Runs : Start(r)
    \/ \E r \in Runs, resp \in GetResponses : \E sz \in SizesFor(resp.body = "dest") :
            GetReturn(r, resp, sz)
    \/ \E r \in Runs, ok \in BOOLEAN : \E len \in SizesFor(ok) : ReadReturn(r, ok, len)
    \/ \E r \in Runs, resp \in CallResponses : PutReturn(r, resp)
    \/ \E r \in Runs, resp \in CallResponses : PostReturn(r, resp)

Spec == Init /\ [][Next]_vars

\* The steps of a process that is never interrupted
NextUninterrupted ==
    \/ \E p \in Paths : on_created(p)
    \/ \E r \in Runs : Start(r)
    \/ \E r \in Runs, resp \in GetResponses : \E sz \in SizesFor(resp.body = "dest") :
            GetReturn(r, resp, sz)
    \/ \E r \in Runs, ok \in BOOLEAN : \E len \in SizesFor(ok) : ReadReturn(r, ok, len)
    \/ \E r \in Runs, resp \in CallResponses : PutReturn(r, resp)
    \/ \E r \in Runs, resp \in CallResponses : PostReturn(r, resp)

\* The uninterrupted process in which the loop resumes every task that can be
\* resumed: every remote call is answered and every file operation returns
FairSpec ==
    /\ Init
    /\ [][NextUninterrupted]_vars
    /\ \A r \in 1..MaxEvents : WF_vars(r \in Runs /\ RunStep(r))

-----------------------------------------------------------------------------
(* What the remote service answered to a task *)

DestFailed(t) ==
    \/ t.getResp.kind = "error"
    \/ t.getResp.kind = "http" /\ t.getResp.status # 200
    \/ t.getResp.kind = "http" /\ t.getResp.body = "undecodable"

DestSucceeded(t) ==
    t.getResp.kind = "http" /\ t.getResp.status = 200 /\ t.getResp.body = "dest"

Is200(resp) == resp.kind = "http" /\ resp.status = 200

Issued(t, method) == \E i \in 1..Len(t.calls) : t.calls[i] = method

\* The path ends in the four characters . m p 4
EndsInDotMp4(p) ==
    /\ Len(p) >= 4
    /\ p[Len(p) - 3] = "."
    /\ p[Len(p) - 2] = "m"
    /\ p[Len(p) - 1] = "p"
    /\ p[Len(p)] = "4"

-----------------------------------------------------------------------------
(* C1 *)

\* C1: a run has deleted its file only if its PUT returned 200 and its POST
\* returned 200; after any failure the file is left alone.
C1_DeletedOnlyIfConfirmed ==
    \A r \in Runs :
        tasks[r].removed => Is200(tasks[r].putResp) /\ Is200(tasks[r].postResp)

-----------------------------------------------------------------------------
(* C2 *)

\* C2 as claimed: a run whose destination request failed issues no PUT and no
\* POST, does not delete the file, and the file exists when the run ends.
C2_FileExistsAfterAbort ==
    \A r \in Runs :
        DestFailed(tasks[r]) =>
            /\ ~Issued(tasks[r], "PUT")
            /\ ~Issued(tasks[r], "POST")
            /\ ~tasks[r].removed
            /\ tasks[r].fileAtEnd

\* C2 amended: a run whose destination request failed issues no PUT and no
\* POST and does not delete the file; the file exists when the run ends unless
\* a different run scheduled for the same path has deleted it.
C2_AbortTouchesNothing ==
    \A r \in Runs :
        DestFailed(tasks[r]) =>
            /\ tasks[r].pc = "aborted"
            /\ tasks[r].calls = <<"GET">>
            /\ tasks[r].posts = <<>>
            /\ ~tasks[r].removed
            /\ \/ tasks[r].fileAtEnd
               \/ \E o \in Runs \ {r} : /\ tasks[o].path = tasks[r].path
                                        /\ tasks[o].removed

C2_Witness ==
    \E r \in Runs :
        /\ tasks[r].getResp.kind = "http" /\ tasks[r].getResp.status = 500
        /\ tasks[r].pc = "aborted"
        /\ tasks[r].fileAtEnd
        /\ tasks[r].path \in files

-----------------------------------------------------------------------------
(* C3 *)

-----------------------------------------------------------------------------
(* C4 *)

\* C4: for every path, the number of runs scheduled for it is the number of
\* its creation events if it ends in '.mp4' (case-sensitive) and zero
\* otherwise, so that no remote call is made for any other path.
C4_OneRunPerVideoEvent ==
    /\ \A p \in Paths :
          Cardinality({r \in Runs : tasks[r].path = p})
              = IF EndsInDotMp4(p) THEN events[p] ELSE 0
    /\ \A r \in Runs : tasks[r].path \in Paths

C4_Witness ==
    /\ \E p \in Paths : EndsInDotMp4(p) /\ events[p] = 1
    /\ \E p \in Paths : ~EndsInDotMp4(p) /\ events[p] = 1 /\ p[Len(p)] = "4"
    /\ Len(tasks) = 1
    /\ tasks[1].calls # <<>>

-----------------------------------------------------------------------------
(* C5 *)

\* C5 as claimed: the interrupt cancels or abandons no scheduled run.
C5_NoRunCancelled ==
    \A r \in Runs : tasks[r].pc # "cancelled"

\* C5 amended: after an external interrupt every run that had not finished,
\* started or not, is cancelled where it stands: it issues no further remote
\* call and does not delete its file; only the runs that had already ended
\* keep their outcome.
C5_InterruptCancelsUnfinished ==
    watcher = "Stopped" =>
        \A r \in Runs :
            /\ tasks[r].pc \in Ended
            /\ tasks[r].pc = "cancelled" =>
                  /\ ~tasks[r].removed
                  /\ tasks[r].postResp = NoResponse
                  /\ tasks[r].fileAtEnd = (tasks[r].path \in files)

C5_Witness ==
    /\ watcher = "Stopped"
    /\ \E r \in Runs : tasks[r].pc = "cancelled" /\ tasks[r].calls = <<>>
    /\ \E r \in Runs : /\ tasks[r].pc = "cancelled"
                       /\ tasks[r].calls = <<"GET", "PUT">>
                       /\ tasks[r].path \in files

-----------------------------------------------------------------------------
(* C6 *)

\* C6: the watcher is Idle or Stopped, the observer runs exactly while it is
\* Idle, entering Stopped stops and joins the observer, and a watcher that
\* was stopped before any video was created has made no remote call.
C6_StoppedJoinsObserver ==
    /\ watcher \in {"Idle", "Stopped"}
    /\ watcher = "Idle" <=> observer = "running"
    /\ watcher = "Stopped" => observer = "joined"
    /\ (watcher = "Stopped" /\ \A p \in Paths : EndsInDotMp4(p) => events[p] = 0)
          => \A r \in Runs : tasks[r].calls = <<>>

-----------------------------------------------------------------------------
(* C7 *)

\* C7: no error of a run leaves it as an uncaught exception.
C7_NoUncaughtException ==
    \A r \in Runs : tasks[r].pc # "crashed"

-----------------------------------------------------------------------------
(* C8 *)

\* C8: while the watcher is Idle, once some run has failed, every run that
\* has not ended can still be resumed and the watcher can still schedule a
\* run for a newly created video.
C8_FailureBlocksNothing ==
    (watcher = "Idle" /\ \E f \in Runs : Failed(tasks[f])) =>
        /\ \A r \in Runs : tasks[r].pc \notin Ended => ENABLED RunStep(r)
        /\ SumEvents(Paths) < MaxEvents =>
              \A p \in Paths : ENABLED on_created(p)

\* The second run was scheduled for a file created after the first run had
\* failed in its transfer and removed its own file; it ran to completion.
C8_Witness ==
    /\ Len(tasks) = 2
    /\ SumEvents(Paths) = 2
    /\ tasks[1].path = tasks[2].path
    /\ tasks[1].pc = "done" /\ tasks[1].removed
    /\ ~Is200(tasks[1].putResp)
    /\ tasks[2].pc = "done" /\ tasks[2].removed

-----------------------------------------------------------------------------
(* C9 *)

\* C9: while the progress bar exists its value never exceeds its total, and
\* after the read step its value equals its total.
C9_ProgressWithinTotal ==
    \A r \in Runs :
        tasks[r].bar.open =>
            /\ tasks[r].bar.n <= tasks[r].bar.total
            /\ tasks[r].pc = "put" => tasks[r].bar.n = tasks[r].bar.total

-----------------------------------------------------------------------------
(* C10 *)

\* C10: every POST body has category_id 25 and is_available_in_public_feed
\* true.
C10_PostConstants ==
    \A r \in Runs :
        \A i \in 1..Len(tasks[r].posts) :
            /\ tasks[r].posts[i].category_id = 25
            /\ tasks[r].posts[i].is_available_in_public_feed = TRUE

C10_Witness ==
    /\ Len(tasks) = 2
    /\ \A r \in Runs : Len(tasks[r].posts) = 1 /\ Issued(tasks[r], "POST")
    /\ tasks[1].putResp.kind = "readfail"
    /\ Is200(tasks[2].putResp)

-----------------------------------------------------------------------------
(* C11 *)

\* C11: a failed destination request is the only condition under which a run
\* ends without a POST: every run whose destination request succeeded and
\* that ended on its own has issued the POST and, once the POST returned, went
\* on to the deletion of its file, also after a failed transfer.
C11_PostUnlessDestFailed ==
    \A r \in Runs :
        (DestSucceeded(tasks[r]) /\ tasks[r].pc \in {"done", "aborted", "crashed"}) =>
            /\ Issued(tasks[r], "POST")
            /\ Len(tasks[r].posts) = 1
            /\ tasks[r].postResp # NoResponse

-----------------------------------------------------------------------------
(* C12 *)

\* C12 as claimed: no run shares its file with another run, so that no run
\* goes to its file (to size it or to delete it) after a different run has
\* deleted it, also when two creation events carry the same path.
C12_NoRunFindsFileDeleted ==
    \A r \in Runs :
        \A o \in Runs \ {r} :
            (tasks[o].path = tasks[r].path /\ tasks[o].removed) =>
                ~(tasks[r].pc = "crashed" /\ DestSucceeded(tasks[r]))

\* C12 amended: a run deletes only the file at the path it was scheduled for:
\* a created file that is gone was deleted by a run scheduled for exactly that
\* path, so runs of different paths never touch each other's file; a run finds
\* its own file missing only when another run scheduled for the same path has
\* deleted it, which nothing excludes.
C12_DeletesOwnPathOnly ==
    /\ \A p \in Paths :
          (events[p] > 0 /\ p \notin files) =>
              \E o \in Runs : tasks[o].path = p /\ tasks[o].removed
    /\ \A p \in files : events[p] > 0
    /\ \A r \in Runs :
          (tasks[r].pc = "crashed" /\ DestSucceeded(tasks[r])) =>
              \E o \in Runs \ {r} : /\ tasks[o].path = tasks[r].path
                                    /\ tasks[o].removed

\* One run has deleted its file while a run of another path, scheduled
\* before it, is still in its PUT with its own file untouched.
C12_Witness ==
    /\ Len(tasks) = 2
    /\ tasks[1].path # tasks[2].path
    /\ tasks[2].removed /\ tasks[2].path \notin files
    /\ tasks[1].pc = "put" /\ tasks[1].path \in files

-----------------------------------------------------------------------------
(* C13 *)

\* C13: a run suspended in a remote call (GET, PUT or POST) that does not
\* return blocks only itself: while it stays suspended, every other run that
\* has not ended can take its next step and the watcher can schedule a run
\* for a newly created file.
C13_HangBlocksOnlyItself ==
    \A h \in Runs :
        (watcher = "Idle" /\ tasks[h].pc \in {"get", "put", "post"}) =>
            /\ \A r \in Runs \ {h} :
                  tasks[r].pc \notin Ended => ENABLED RunStep(r)
            /\ SumEvents(Paths) < MaxEvents =>
                  \A p \in Paths : ENABLED on_created(p)

\* The first run is still waiting for the answer to its GET while a run
\* scheduled after it, for another file, went through all its steps.
C13_Witness ==
    /\ Len(tasks) = 2
    /\ watcher = "Idle"
    /\ tasks[1].pc = "get"
    /\ tasks[2].path # tasks[1].path
    /\ tasks[2].pc = "done" /\ tasks[2].removed
    /\ tasks[2].calls = <<"GET", "PUT", "POST">>

-----------------------------------------------------------------------------
(* C14 *)

\* C14: the calls of a run keep one order: the PUT is issued only after the
\* GET returned 200 with a destination and goes to the url decoded from that
\* answer; the POST is issued only after the transfer step has finished, with
\* an answer to the PUT or with a failure; the file is deleted only after the
\* POST call has returned.
C14_FixedOrder ==
    \A r \in Runs :
        LET t == tasks[r]
        IN  /\ t.calls \in {<<>>, <<"GET">>, <<"GET", "PUT">>,
                            <<"GET", "PUT", "POST">>, <<"GET", "POST">>}
            /\ Issued(t, "PUT") =>
                  /\ DestSucceeded(t)
                  /\ t.putUrl = get_upload_url(t.getResp, r).url
            /\ Issued(t, "POST") =>
                  /\ DestSucceeded(t)
                  /\ t.putResp # NoResponse
                  /\ t.putResp = ReadFailed <=> ~Issued(t, "PUT")
            /\ t.pc = "put" => t.putResp = NoResponse
            /\ t.pc = "post" => t.postResp = NoResponse
            /\ t.removed => Issued(t, "POST") /\ t.postResp # NoResponse

\* A run deleted its file after the three calls, each answered with 200.
C14_Witness ==
    \E r \in Runs :
        /\ tasks[r].calls = <<"GET", "PUT", "POST">>
        /\ tasks[r].putUrl = r
        /\ Is200(tasks[r].putResp)
        /\ Is200(tasks[r].postResp)
        /\ tasks[r].removed

-----------------------------------------------------------------------------
(* C15 *)

Count(calls, method) == Cardinality({i \in 1..Len(calls) : calls[i] = method})

\* C15: no remote call is retried: a run issues the GET, the PUT and the
\* POST at most once each, whatever was answered, and sends at most one POST
\* body.
C15_NoRetry ==
    \A r \in Runs :
        /\ \A i, j \in 1..Len(tasks[r].calls) :
              tasks[r].calls[i] = tasks[r].calls[j] => i = j
        /\ \A i \in 1..Len(tasks[r].calls) :
              tasks[r].calls[i] \in {"GET", "PUT", "POST"}
        /\ Len(tasks[r].posts) <= 1

\* One run ended after a GET that failed, another after a PUT and a POST
\* that both failed; neither call was issued again.
C15_Witness ==
    /\ \E r \in Runs : /\ tasks[r].pc = "aborted"
                       /\ tasks[r].getResp.kind = "error"
                       /\ Count(tasks[r].calls, "GET") = 1
    /\ \E r \in Runs : /\ tasks[r].pc = "done"
                       /\ tasks[r].putResp.kind = "failed"
                       /\ tasks[r].postResp.kind = "failed"
                       /\ Count(tasks[r].calls, "PUT") = 1
                       /\ Count(tasks[r].calls, "POST") = 1

-----------------------------------------------------------------------------
(* C16 *)

\* C16: with runs interleaved, every POST body carries as title the file
\* name (the path without its directory) of the run's own file and as hash
\* the hash decoded from the answer to the run's own destination request; the
\* hash a run obtained appears in no other run's POST.
C16_PostCarriesOwnData ==
    \A r \in Runs :
        \A i \in 1..Len(tasks[r].posts) :
            LET b == tasks[r].posts[i]
            IN  /\ Dir \o b.title = tasks[r].path
                /\ \A k \in 1..Len(b.title) : b.title[k] # "/"
                /\ DestSucceeded(tasks[r])
                /\ b.hash = get_upload_url(tasks[r].getResp, r).hash
                /\ \A o \in Runs \ {r} :
                      DestSucceeded(tasks[o]) => b.hash # tasks[o].hash

\* The POSTs of two runs for different files are in flight at the same time.
C16_Witness ==
    /\ Len(tasks) = 2
    /\ tasks[1].path # tasks[2].path
    /\ tasks[1].pc = "post" /\ tasks[2].pc = "post"
    /\ tasks[1].posts[1].title # tasks[2].posts[1].title
    /\ tasks[1].posts[1].hash = 1 /\ tasks[2].posts[1].hash = 2

-----------------------------------------------------------------------------
(* C17 *)

\* C17 as claimed: when every remote call returns, every file operation
\* completes and no interrupt occurs, every scheduled run eventually ends
\* either aborted after a failed destination request or finished after its
\* delete step.
C17_EndsAbortedOrFinished ==
    \A r \in 1..MaxEvents :
        [](r \in Runs => <>(r \in Runs /\ tasks[r].pc \in {"aborted", "done"}))

\* C17, the part that holds: under the same assumptions every scheduled run
\* eventually ends, by a return or by an exception.
C17_EveryRunEnds ==
    \A r \in 1..MaxEvents :
        [](r \in Runs => <>(r \in Runs /\ tasks[r].pc \in Ended \ {"cancelled"}))

-----------------------------------------------------------------------------
(* C18 *)

\* C18: the PUT is issued only once the file has been read and carries
\* exactly the bytes that were read; a run whose open or read failed issues
\* no PUT at all and still goes on to the POST, with the hash of its
\* destination.
C18_PutCarriesBytesRead ==
    \A r \in Runs :
        LET t == tasks[r]
        IN  /\ t.pc = "put" => t.bar.open /\ t.putLen = t.bar.n
            /\ Issued(t, "PUT") => t.putResp # ReadFailed
            /\ t.putResp = ReadFailed =>
                  /\ t.calls = <<"GET", "POST">>
                  /\ t.putUrl = 0 /\ t.putLen = 0
                  /\ Len(t.posts) = 1
                  /\ t.posts[1].hash = get_upload_url(t.getResp, r).hash
                  /\ DestSucceeded(t)

\* One run is in its PUT with the byte it read, another could not read its
\* file and has sent its POST.
C18_Witness ==
    /\ \E r \in Runs : /\ tasks[r].pc = "put"
                       /\ tasks[r].putLen = 1
                       /\ tasks[r].bar.n = 1
    /\ \E r \in Runs : /\ tasks[r].putResp = ReadFailed
                       /\ tasks[r].pc = "post"
                       /\ tasks[r].posts[1].hash = r

-----------------------------------------------------------------------------
(* C19 *)

\* C19: no session is used by two runs; within a run the GET and the POST go
\* through one session and the PUT through another, constructed for it; a
\* session is open while a call on it is in flight, the session of the PUT is
\* closed when the PUT has returned, and a run that has ended, by an abort
\* after a failed destination request as by any other way, has no session
\* left open.
C19_SessionsOwnedAndClosed ==
    \A r \in Runs :
        LET t == tasks[r]
        IN  /\ Len(t.sessions) = Len(t.calls)
            /\ \A o \in Runs \ {r} :
                  \A j \in 1..Len(tasks[o].sessions) :
                      /\ tasks[o].sessions[j] \notin t.open
                      /\ \A i \in 1..Len(t.sessions) :
                            tasks[o].sessions[j] # t.sessions[i]
            /\ \A i, j \in 1..Len(t.calls) :
                  IF (t.calls[i] = "PUT") = (t.calls[j] = "PUT")
                  THEN t.sessions[i] = t.sessions[j]
                  ELSE t.sessions[i] # t.sessions[j]
            /\ \A s \in t.open : \E i \in 1..Len(t.sessions) : t.sessions[i] = s
            /\ t.pc \in {"get", "put", "post"} =>
                  t.sessions[Len(t.sessions)] \in t.open
            /\ t.pc \in {"get", "read", "post"} => t.open = {t.session}
            /\ t.pc = "put" => Cardinality(t.open) = 2
            /\ t.pc \in Ended => t.open = {}

\* A run aborted after a failed destination request and a run that made its
\* three calls have both ended.
C19_Witness ==
    /\ \E r \in Runs : /\ tasks[r].pc = "aborted"
                       /\ Len(tasks[r].sessions) = 1
                       /\ tasks[r].open = {}
    /\ \E r \in Runs : /\ tasks[r].pc = "done"
                       /\ Len(tasks[r].sessions) = 3
                       /\ tasks[r].sessions[2] # tasks[r].sessions[1]
                       /\ tasks[r].sessions[3] = tasks[r].sessions[1]
                       /\ tasks[r].open = {}

====
